---- MODULE Spec2Model ----
(***************************************************************************)
(* The ADPC Gender Equality Monitor scraper: Pipeline (pipeline.py) and    *)
(* the main loop that publishes its per-country results (__main__.py).     *)
(***************************************************************************)
EXTENDS Integers, Sequences, FiniteSets, TLC

VARIABLES
  country_geojson,   \* features of data/country.json
  province_geojson,  \* features of data/provinces.json
  countries,         \* self._countries
  province_mapping,  \* self._province_mapping
  gii_data,          \* rows of data/GEM-GII.csv
  dimension_data,    \* rows of data/GEM-GII_dimension.csv
  indicator_data,    \* rows of data/GEM-GII_indicator.csv
  sex_disagg_data,   \* rows of data/GEM-Sex-disaggregated.csv
  country_filter,    \* main's country_filter (the empty set: no filter)
  locations,         \* the ISO3 codes add_country_location resolves
  pc,                \* where main is
  next_country,      \* index of get_country_data's loop over self._countries
  filtered,          \* the four *_filtered lists of the loop's latest iteration
  results,           \* get_country_data's results list
  next_result,       \* index of main's loop over the results
  hdx                \* the datasets created in HDX, in creation order

vars == <<country_geojson, province_geojson, countries, province_mapping, gii_data, dimension_data, indicator_data, sex_disagg_data, country_filter, locations, pc, next_country, filtered, results, next_result, hdx>>

----------------------------------------------------------------------------
(* Bounds of the model *)

\* rows over the four CSV files together, when all four are populated
MaxRows == 2
\* rows of the one populated CSV file, when a single file is populated
MaxLen == 2

----------------------------------------------------------------------------
(* Python values *)

\* None, and a value that is not None: x.get(k) is None or <<v>>
None == <<>>

Some(v) == <<v>>

\* dict.get(key, default) on a row
Get(row, key, default) == IF key \in DOMAIN row THEN row[key] ELSE default

\* the decimal texts that occur in the data, with the integer int() gives
IntLiteral == ("1" :> 1) @@ ("2" :> 2) @@ ("3" :> 3) @@ ("11" :> 11) @@ ("011" :> 11) @@ ("12" :> 12) @@ ("21" :> 21) @@ ("99" :> 99) @@ ("1990" :> 1990) @@ ("2019" :> 2019) @@ ("2020" :> 2020)

\* int(s) returns (does not raise ValueError)
IsInt(s) == s \in DOMAIN IntLiteral

int(s) == IntLiteral[s]

\* the texts that occur as sort keys, in ascending order of Python's str comparison
StrOrder == <<"", "Attapeu", "Battambang", "Education", "Employment", "Health", "Literacy", "Mortality", "Phnom Penh", "Schooling", "Vientiane">>

\* position of a text in Python's str order
StrRank(s) == CHOOSE k \in 1..Len(StrOrder) : StrOrder[k] = s

\* str.lower() on the ISO3 codes
Lower == ("KHM" :> "khm") @@ ("LAO" :> "lao")

lower(s) == Lower[s]

\* comparison of two key tuples of the same length
TupleLess(a, b) == \E k \in 1..Len(a) : a[k] < b[k] /\ \A m \in 1..(k - 1) : a[m] = b[m]

\* what a transformer call ends with: its return value, or the ValueError it raises
Returned(rows) == [raised |-> FALSE, rows |-> rows]

ValueError == [raised |-> TRUE, rows |-> <<>>]

\* the sort keys with the year not negated
SortKey_year_ascending(table, x) ==
  CASE table = "gii-national" -> <<int(x.year)>>
    [] table = "gii-subnational" -> <<int(x.year), StrRank(x.province)>>
    [] table = "dimension-national" -> <<int(x.year), StrRank(x.dimension_category), StrRank(x.dimension)>>
    [] table = "dimension-subnational" -> <<int(x.year), StrRank(x.province), StrRank(x.dimension_category), StrRank(x.dimension)>>
    [] table = "indicator-national" -> <<int(x.year), StrRank(x.indicator_category), StrRank(x.indicator)>>
    [] table = "indicator-subnational" -> <<int(x.year), StrRank(x.province), StrRank(x.indicator_category), StrRank(x.indicator)>>
    [] table = "sex-disaggregated" -> <<int(x.year), StrRank(x.province), StrRank(x.indicator)>>

\* the key= lambda of each transformer's sorted call, on an item x
SortKey(table, x) ==
  CASE table = "gii-national" -> <<int(x.year)>>
    [] table = "gii-subnational" -> <<-int(x.year), StrRank(x.province)>>
    [] table = "dimension-national" -> <<-int(x.year), StrRank(x.dimension_category), StrRank(x.dimension)>>
    [] table = "dimension-subnational" -> <<-int(x.year), StrRank(x.province), StrRank(x.dimension_category), StrRank(x.dimension)>>
    [] table = "indicator-national" -> <<-int(x.year), StrRank(x.indicator_category), StrRank(x.indicator)>>
    [] table = "indicator-subnational" -> <<-int(x.year), StrRank(x.province), StrRank(x.indicator_category), StrRank(x.indicator)>>
    [] table = "sex-disaggregated" -> <<-int(x.year), StrRank(x.province), StrRank(x.indicator)>>

\* Python's sorted on the items' keys: a stable sort; with reverse it is stable too
StableSort(items, table, reverse) ==
  LET n == Len(items)
      key(a) == SortKey(table, items[a])
      Before(a, b) == \/ (IF reverse THEN TupleLess(key(b), key(a)) ELSE TupleLess(key(a), key(b)))
                      \/ (key(a) = key(b) /\ a < b)
      place(a) == 1 + Cardinality({b \in 1..n : Before(b, a)})
  IN [p \in 1..n |-> items[CHOOSE a \in 1..n : place(a) = p]]

\* sorted(transformed, key=...): every key calls int(x["year"]), which may raise
sorted(transformed, table, reverse) ==
  IF \E n \in 1..Len(transformed) : ~IsInt(transformed[n].year) THEN ValueError
  ELSE Returned(StableSort(transformed, table, reverse))

----------------------------------------------------------------------------
(* Reference data *)

\* the country list keyed by iso: one entry per iso, that of its last feature
load_countries_last_wins(data) ==
  LET features == data.features
      kept == {n \in 1..Len(features) : \A m \in (n + 1)..Len(features) : features[m].properties.iso # features[n].properties.iso}
      nth(p) == CHOOSE n \in kept : Cardinality({m \in kept : m <= n}) = p
  IN [p \in 1..Cardinality(kept) |-> [iso3 |-> features[nth(p)].properties.iso, name |-> features[nth(p)].properties.name_0, area_id |-> features[nth(p)].properties.area_id]]

load_countries(data) ==
  LET features == data.features
  IN [n \in 1..Len(features) |-> [iso3 |-> features[n].properties.iso, name |-> features[n].properties.name_0, area_id |-> features[n].properties.area_id]]

build_province_mapping(data) ==
  LET features == data.features
      ids == {features[n].properties.area_id : n \in 1..Len(features)}
      last(a) == CHOOSE n \in 1..Len(features) : features[n].properties.area_id = a /\ \A m \in (n + 1)..Len(features) : features[m].properties.area_id # a
  IN [a \in ids |-> [iso3 |-> features[last(a)].properties.iso, name |-> features[last(a)].properties.name_1]]

get_country_area_id(country_code) ==
  LET hits == {n \in 1..Len(countries) : countries[n].iso3 = country_code}
  IN IF hits = {} THEN None ELSE Some(countries[CHOOSE n \in hits : \A m \in hits : n <= m].area_id)

\* the province area_ids without the check of the entry's iso3
get_province_area_ids_all(country_code) ==
  {area_id \in DOMAIN province_mapping : TRUE}

get_province_area_ids(country_code) ==
  {area_id \in DOMAIN province_mapping : province_mapping[area_id].iso3 = country_code}

----------------------------------------------------------------------------
(* Partition *)

\* int(row.get("area_id", -1)) raises ValueError
AreaIdRaises(row) == "area_id" \in DOMAIN row /\ ~IsInt(row["area_id"])

\* int(row.get("area_id", -1))
AreaIdOf(row) == IF "area_id" \in DOMAIN row THEN int(row["area_id"]) ELSE -1

RECURSIVE FilterLoop(_, _, _, _)
\* the loop over rows, from row n on, with the rows appended so far
FilterLoop(rows, n, country_area_id, province_area_ids) ==
  IF n > Len(rows) THEN <<>>
  ELSE LET row == rows[n]
           rest == FilterLoop(rows, n + 1, country_area_id, province_area_ids)
       IN IF AreaIdRaises(row) THEN rest
          ELSE LET area_id == AreaIdOf(row)
                   admin_level == Get(row, "admin_level", "")
               IN IF admin_level = "country" /\ Some(area_id) = country_area_id THEN <<row>> \o rest
                  ELSE IF admin_level = "province" /\ area_id \in province_area_ids THEN <<row>> \o rest
                  ELSE rest

RECURSIVE AnyLevelLoop(_, _, _, _)
\* the loop with the admin_level conditions left out
AnyLevelLoop(rows, n, country_area_id, province_area_ids) ==
  IF n > Len(rows) THEN <<>>
  ELSE LET rest == AnyLevelLoop(rows, n + 1, country_area_id, province_area_ids)
       IN IF AreaIdRaises(rows[n]) THEN rest
          ELSE IF Some(AreaIdOf(rows[n])) = country_area_id \/ AreaIdOf(rows[n]) \in province_area_ids THEN <<rows[n]>> \o rest
          ELSE rest

\* the partition matching on area_id alone
filter_csv_any_level(rows, country_code) ==
  AnyLevelLoop(rows, 1, get_country_area_id(country_code), get_province_area_ids(country_code))

filter_csv_by_country(rows, country_code) ==
  FilterLoop(rows, 1, get_country_area_id(country_code), get_province_area_ids(country_code))

\* the geometry partition reading a property the features do not have
filter_geojson_wrong_key(geojson, country_code) ==
  [type |-> "FeatureCollection", features |-> SelectSeq(geojson.features, LAMBDA feature : "iso3" \in DOMAIN feature.properties /\ feature.properties["iso3"] = country_code)]

filter_geojson_by_country(geojson, country_code) ==
  [type |-> "FeatureCollection", features |-> SelectSeq(geojson.features, LAMBDA feature : "iso" \in DOMAIN feature.properties /\ feature.properties["iso"] = country_code)]

----------------------------------------------------------------------------
(* Schema transformers *)

\* the rows of the given admin_level, in source order
RowsOfLevel(rows, level) == SelectSeq(rows, LAMBDA row : Get(row, "admin_level", "") = level)

\* int(area_id) raises ValueError on some row: area_id is not empty and no integer
ProvinceLookupRaises(rows) ==
  \E n \in 1..Len(rows) : Get(rows[n], "area_id", "") # "" /\ ~IsInt(Get(rows[n], "area_id", ""))

\* admin1_info["name"] if admin1_info else "", where admin1_info is the mapping's entry
ProvinceName(row) ==
  LET area_id == Get(row, "area_id", "")
      admin1_info == IF area_id # "" /\ int(area_id) \in DOMAIN province_mapping THEN Some(province_mapping[int(area_id)]) ELSE None
  IN IF admin1_info # None THEN admin1_info[1].name ELSE ""

GiiNationalRow(row, country_code) ==
  [iso3 |-> country_code, country |-> Get(row, "admin_name", ""), year |-> Get(row, "year", ""), gender_inequality_index |-> Get(row, "gii", "")]

transform_gii_national(rows, country_code) ==
  LET kept == RowsOfLevel(rows, "country")
      transformed == [n \in 1..Len(kept) |-> GiiNationalRow(kept[n], country_code)]
  IN sorted(transformed, "gii-national", TRUE)

GiiSubnationalRow(row, country_code, country_name) ==
  [iso3 |-> country_code, country |-> country_name, province |-> ProvinceName(row), year |-> Get(row, "year", ""), gender_inequality_index |-> Get(row, "gii", "")]

transform_gii_subnational(rows, country_code, country_name) ==
  LET kept == RowsOfLevel(rows, "province")
      transformed == [n \in 1..Len(kept) |-> GiiSubnationalRow(kept[n], country_code, country_name)]
  IN IF ProvinceLookupRaises(kept) THEN ValueError
     ELSE sorted(transformed, "gii-subnational", FALSE)

DimensionNationalRow(row, country_code) ==
  [iso3 |-> country_code, country |-> Get(row, "admin_name", ""), dimension_category |-> Get(row, "", ""), dimension |-> Get(row, "dimension_name", ""), gender |-> Get(row, "F/M", ""), year |-> Get(row, "year", ""), value |-> Get(row, "value", ""), unit |-> Get(row, "Unit", "")]

transform_dimension_national(rows, country_code) ==
  LET kept == RowsOfLevel(rows, "country")
      transformed == [n \in 1..Len(kept) |-> DimensionNationalRow(kept[n], country_code)]
  IN sorted(transformed, "dimension-national", FALSE)

DimensionSubnationalRow(row, country_code, country_name) ==
  [iso3 |-> country_code, country |-> country_name, province |-> ProvinceName(row), dimension_category |-> Get(row, "", ""), dimension |-> Get(row, "dimension_name", ""), gender |-> Get(row, "F/M", ""), year |-> Get(row, "year", ""), value |-> Get(row, "value", ""), unit |-> Get(row, "Unit", "")]

transform_dimension_subnational(rows, country_code, country_name) ==
  LET kept == RowsOfLevel(rows, "province")
      transformed == [n \in 1..Len(kept) |-> DimensionSubnationalRow(kept[n], country_code, country_name)]
  IN IF ProvinceLookupRaises(kept) THEN ValueError
     ELSE sorted(transformed, "dimension-subnational", FALSE)

IndicatorNationalRow(row, country_code, country_name) ==
  [iso3 |-> country_code, country |-> country_name, indicator_category |-> Get(row, "common_name", ""), indicator |-> Get(row, "indicator_name", ""), gender |-> Get(row, "F/M", ""), year |-> Get(row, "year", ""), value |-> Get(row, "value", ""), unit |-> Get(row, "Unit", "")]

transform_indicator_national(rows, country_code, country_name) ==
  LET kept == RowsOfLevel(rows, "country")
      transformed == [n \in 1..Len(kept) |-> IndicatorNationalRow(kept[n], country_code, country_name)]
  IN sorted(transformed, "indicator-national", FALSE)

IndicatorSubnationalRow(row, country_code, country_name) ==
  [iso3 |-> country_code, country |-> country_name, province |-> ProvinceName(row), indicator_category |-> Get(row, "common_name", ""), indicator |-> Get(row, "indicator_name", ""), gender |-> Get(row, "F/M", ""), year |-> Get(row, "year", ""), value |-> Get(row, "value", ""), unit |-> Get(row, "Unit", "")]

transform_indicator_subnational(rows, country_code, country_name) ==
  LET kept == RowsOfLevel(rows, "province")
      transformed == [n \in 1..Len(kept) |-> IndicatorSubnationalRow(kept[n], country_code, country_name)]
  IN IF ProvinceLookupRaises(kept) THEN ValueError
     ELSE sorted(transformed, "indicator-subnational", FALSE)

\* the record with the iso3 of the province mapping's entry, when there is one
SexDisaggregatedRow_mapped_iso3(row, country_code, country_name) ==
  LET area_id == Get(row, "area_id", "")
      mapped == area_id # "" /\ int(area_id) \in DOMAIN province_mapping
  IN [iso3 |-> IF mapped THEN province_mapping[int(area_id)].iso3 ELSE country_code, country |-> country_name, province |-> ProvinceName(row), indicator |-> Get(row, "dataset_name_l1", ""), sub_indicator |-> Get(row, "dataset_name_l2", ""), gender |-> Get(row, "F/M", ""), year |-> Get(row, "year", ""), value |-> Get(row, "value", ""), unit |-> Get(row, "Unit", ""), calculation_type |-> Get(row, "calc", ""), definition |-> Get(row, "Definition", "")]

SexDisaggregatedRow(row, country_code, country_name) ==
  [iso3 |-> country_code, country |-> country_name, province |-> ProvinceName(row), indicator |-> Get(row, "dataset_name_l1", ""), sub_indicator |-> Get(row, "dataset_name_l2", ""), gender |-> Get(row, "F/M", ""), year |-> Get(row, "year", ""), value |-> Get(row, "value", ""), unit |-> Get(row, "Unit", ""), calculation_type |-> Get(row, "calc", ""), definition |-> Get(row, "Definition", "")]

transform_sex_disaggregated(rows, country_code, country_name) ==
  LET transformed == [n \in 1..Len(rows) |-> SexDisaggregatedRow(rows[n], country_code, country_name)]
  IN IF ProvinceLookupRaises(rows) THEN ValueError
     ELSE sorted(transformed, "sex-disaggregated", FALSE)

\* the fallback of _get_years_from_rows
FallbackMinYear == 2000

FallbackMaxYear == 2024

\* the range read off the ends of the rows, as if they were one list sorted by year
get_years_from_ends(rows) ==
  LET valid == SelectSeq(rows, LAMBDA row : Get(row, "year", "") # "" /\ IsInt(row.year))
  IN IF valid # <<>> THEN <<int(valid[Len(valid)].year), int(valid[1].year)>>
     ELSE <<FallbackMinYear, FallbackMaxYear>>

get_years_from_rows(rows) ==
  LET years == {int(rows[n].year) : n \in {m \in 1..Len(rows) : Get(rows[m], "year", "") # "" /\ IsInt(rows[m].year)}}
  IN IF years # {} THEN <<CHOOSE y \in years : \A z \in years : y <= z, CHOOSE y \in years : \A z \in years : y >= z>>
     ELSE <<FallbackMinYear, FallbackMaxYear>>

----------------------------------------------------------------------------
(* Per-country aggregation *)

\* the keys of csv_data and of geojson_data, in the dicts' insertion order
CsvOrder == <<"gii-national", "gii-subnational", "dimension-national", "dimension-subnational", "indicator-national", "indicator-subnational", "sex-disaggregated">>

GeoOrder == <<"country-boundary", "province-boundaries">>

\* gii_filtered, dimension_filtered, indicator_filtered, sex_disagg_filtered
FilterAll(country_code) ==
  [gii |-> filter_csv_by_country(gii_data, country_code), dimension |-> filter_csv_by_country(dimension_data, country_code), indicator |-> filter_csv_by_country(indicator_data, country_code), sex_disagg |-> filter_csv_by_country(sex_disagg_data, country_code)]

\* the seven transformer calls of one iteration, each with what it ends with
TransformAll(f, country_code, country_name) ==
  ("gii-national" :> transform_gii_national(f.gii, country_code))
  @@ ("gii-subnational" :> transform_gii_subnational(f.gii, country_code, country_name))
  @@ ("dimension-national" :> transform_dimension_national(f.dimension, country_code))
  @@ ("dimension-subnational" :> transform_dimension_subnational(f.dimension, country_code, country_name))
  @@ ("indicator-national" :> transform_indicator_national(f.indicator, country_code, country_name))
  @@ ("indicator-subnational" :> transform_indicator_subnational(f.indicator, country_code, country_name))
  @@ ("sex-disaggregated" :> transform_sex_disaggregated(f.sex_disagg, country_code, country_name))

RECURSIVE AllRows(_, _)
\* all_rows: the tables of csv_data.values() from the n-th on, extended in order
AllRows(csv_data, n) ==
  IF n > Len(CsvOrder) THEN <<>> ELSE csv_data[CsvOrder[n]] \o AllRows(csv_data, n + 1)

\* one iteration of get_country_data's loop: the result appended, unless a call raises
CountryResult(country) ==
  LET country_code == country.iso3
      country_name == country.name
      calls == TransformAll(FilterAll(country_code), country_code, country_name)
      csv_data == [s \in DOMAIN calls |-> calls[s].rows]
      geojson_data == ("country-boundary" :> filter_geojson_by_country(country_geojson, country_code)) @@ ("province-boundaries" :> filter_geojson_by_country(province_geojson, country_code))
      years == get_years_from_rows(AllRows(csv_data, 1))
  IN [raised |-> \E s \in DOMAIN calls : calls[s].raised,
      result |-> [iso3 |-> country_code, name |-> country_name, csv_data |-> csv_data, geojson_data |-> geojson_data, min_year |-> years[1], max_year |-> years[2]]]

----------------------------------------------------------------------------
(* Dataset generation *)

CsvDescription(suffix, country_name) ==
  CASE suffix = "gii-national" -> "National Gender Inequality Index scores for " \o country_name
    [] suffix = "gii-subnational" -> "Subnational Gender Inequality Index scores for " \o country_name
    [] suffix = "dimension-national" -> "National Gender Inequality Index by dimension for " \o country_name
    [] suffix = "dimension-subnational" -> "Subnational Gender Inequality Index by dimension for " \o country_name
    [] suffix = "indicator-national" -> "National Gender Inequality Index by indicator for " \o country_name
    [] suffix = "indicator-subnational" -> "Subnational Gender Inequality Index by indicator for " \o country_name
    [] suffix = "sex-disaggregated" -> "Sex-disaggregated data for " \o country_name

GeoDescription(suffix, country_name) ==
  CASE suffix = "country-boundary" -> "Country boundary for " \o country_name
    [] suffix = "province-boundaries" -> "Province boundaries for " \o country_name

\* _add_csv_resource without its check for no rows
add_csv_resource_unchecked(resources, rows, resource_name, description) ==
  Append(resources, [name |-> resource_name, description |-> description, format |-> "csv", content |-> rows])

\* the dataset's resources after _add_csv_resource
add_csv_resource(resources, rows, resource_name, description) ==
  IF rows = <<>> THEN resources
  ELSE Append(resources, [name |-> resource_name, description |-> description, format |-> "csv", content |-> rows])

\* the dataset's resources after _add_geojson_resource
add_geojson_resource(resources, geojson, resource_name, description) ==
  IF Get(geojson, "features", <<>>) = <<>> THEN resources
  ELSE Append(resources, [name |-> resource_name, description |-> description, format |-> "GeoJSON", content |-> geojson])

RECURSIVE AddCsvResources(_, _, _)
\* the loop over csv_data.items(), from the n-th item on
AddCsvResources(resources, country_data, n) ==
  IF n > Len(CsvOrder) THEN resources
  ELSE LET suffix == CsvOrder[n]
           resource_name == lower(country_data.iso3) \o "-gem-" \o suffix \o ".csv"
       IN AddCsvResources(add_csv_resource(resources, country_data.csv_data[suffix], resource_name, CsvDescription(suffix, country_data.name)), country_data, n + 1)

RECURSIVE AddGeojsonResources(_, _, _)
\* the loop over geojson_data.items(), from the n-th item on
AddGeojsonResources(resources, country_data, n) ==
  IF n > Len(GeoOrder) THEN resources
  ELSE LET suffix == GeoOrder[n]
           resource_name == lower(country_data.iso3) \o "-gem-" \o suffix \o ".geojson"
       IN AddGeojsonResources(add_geojson_resource(resources, country_data.geojson_data[suffix], resource_name, GeoDescription(suffix, country_data.name)), country_data, n + 1)

\* the dataset generate_dataset returns when add_country_location does not raise
generate_dataset(country_data) ==
  [name |-> lower(country_data.iso3) \o "-adpc-gem",
   title |-> country_data.name \o " - Gender Equality Monitor",
   time_period |-> <<country_data.min_year, country_data.max_year>>,
   subnational |-> TRUE,
   location |-> country_data.iso3,
   resources |-> AddGeojsonResources(AddCsvResources(<<>>, country_data, 1), country_data, 1)]

----------------------------------------------------------------------------
(* The data directory: the inputs the model draws from *)

Collection(features) == [type |-> "FeatureCollection", features |-> features]

CountryFeature(iso, name_0, area_id) ==
  [type |-> "Feature", properties |-> [iso |-> iso, name_0 |-> name_0, area_id |-> area_id], geometry |-> "boundary of " \o name_0]

ProvinceFeature(iso, name_1, area_id) ==
  [type |-> "Feature", properties |-> [iso |-> iso, name_1 |-> name_1, area_id |-> area_id], geometry |-> "boundary of " \o name_1]

\* country.json: two countries; or three features, two of them sharing an iso
CountryFiles ==
  {Collection(<<CountryFeature("LAO", "Laos", 2), CountryFeature("KHM", "Cambodia", 1)>>),
   Collection(<<CountryFeature("KHM", "Cambodia", 1), CountryFeature("LAO", "Laos", 2), CountryFeature("KHM", "Kampuchea", 3)>>)}

\* provinces.json: provinces of both countries, interleaved; or provinces of one
\* country only, one of them with the area_id of the other country
ProvinceFiles ==
  {Collection(<<ProvinceFeature("KHM", "Phnom Penh", 11), ProvinceFeature("LAO", "Vientiane", 21), ProvinceFeature("KHM", "Battambang", 12)>>),
   Collection(<<ProvinceFeature("KHM", "Battambang", 12), ProvinceFeature("KHM", "Phnom Penh", 11), ProvinceFeature("KHM", "Attapeu", 2)>>)}

GiiRow(area_id, admin_level, admin_name, year, gii) ==
  [area_id |-> area_id, admin_level |-> admin_level, admin_name |-> admin_name, year |-> year, gii |-> gii]

DimensionRow(area_id, admin_level, admin_name, category, dimension_name, year) ==
  ("" :> category) @@ ("F/M" :> "F") @@ [area_id |-> area_id, admin_level |-> admin_level, admin_name |-> admin_name, dimension_name |-> dimension_name, year |-> year, value |-> "0.5", Unit |-> "index"]

IndicatorRow(area_id, admin_level, admin_name, common_name, indicator_name, year) ==
  ("F/M" :> "M") @@ [area_id |-> area_id, admin_level |-> admin_level, admin_name |-> admin_name, common_name |-> common_name, indicator_name |-> indicator_name, year |-> year, value |-> "61", Unit |-> "%"]

SexRow(area_id, admin_level, dataset_name_l1, dataset_name_l2, year) ==
  ("F/M" :> "F") @@ [area_id |-> area_id, admin_level |-> admin_level, dataset_name_l1 |-> dataset_name_l1, dataset_name_l2 |-> dataset_name_l2, year |-> year, value |-> "12", Unit |-> "%", calc |-> "ratio", Definition |-> "share of women"]

\* the rows a file is drawn from when all four files are populated
CorePool(file) ==
  CASE file = "GEM-GII" ->
         {GiiRow("1", "country", "Cambodia", "2019", "0.42"),
          GiiRow("1", "country", "Kampuchea", "1990", "0.55"),
          GiiRow("2", "country", "Laos", "2019", "0.47"),
          GiiRow("11", "province", "Phnom Penh", "2020", "0.30"),
          GiiRow("21", "province", "Vientiane", "abc", "0.45")}
    [] file = "GEM-GII_dimension" ->
         {DimensionRow("1", "country", "Khmer Republic", "Health", "Mortality", "2019"),
          DimensionRow("12", "province", "Battambang", "Education", "Schooling", "2019"),
          DimensionRow("21", "province", "Vientiane", "Health", "Mortality", "")}
    [] file = "GEM-GII_indicator" ->
         {IndicatorRow("2", "country", "Laos", "Education", "Literacy", "2020"),
          IndicatorRow("11", "province", "Phnom Penh", "Health", "Mortality", "2019")}
    [] file = "GEM-Sex-disaggregated" ->
         {SexRow("11", "province", "Employment", "Wage", "2020"),
          SexRow("1", "country", "Employment", "Wage", "2019"),
          SexRow("2", "country", "Education", "Enrolment", "1990")}

\* the rows a file is drawn from when it is the one populated file
Pool(file) ==
  CorePool(file) \cup
  (CASE file = "GEM-GII" ->
         {GiiRow("3", "country", "Kampuchea", "2020", "0.40"),
          GiiRow("12", "province", "Battambang", "2020", "0.51"),
          GiiRow("011", "province", "Phnom Penh", "1990", "0.61"),
          GiiRow("21", "province", "Vientiane", "2019", "0.44"),
          GiiRow("99", "province", "Atlantis", "2019", "0.33"),
          GiiRow("x", "province", "Nowhere", "2019", "0.10"),
          GiiRow("11", "district", "Chamkar Mon", "2019", "0.20"),
          [admin_level |-> "country", admin_name |-> "Cambodia", year |-> "2019", gii |-> "0.42"]}
    [] file = "GEM-GII_dimension" ->
         {DimensionRow("1", "country", "Cambodia", "Education", "Schooling", "2019"),
          DimensionRow("1", "country", "Cambodia", "Education", "Literacy", "2019"),
          DimensionRow("12", "province", "Battambang", "Education", "Literacy", "2019"),
          DimensionRow("12", "province", "Battambang", "Health", "Mortality", "2019"),
          DimensionRow("11", "province", "Phnom Penh", "Health", "Mortality", "2019"),
          DimensionRow("11", "province", "Phnom Penh", "Health", "Mortality", "2020"),
          DimensionRow("", "province", "Phnom Penh", "Health", "Mortality", "2020")}
    [] file = "GEM-GII_indicator" ->
         {IndicatorRow("1", "country", "Cambodia", "Health", "Mortality", "2020"),
          IndicatorRow("1", "country", "Cambodia", "Education", "Schooling", "2020"),
          IndicatorRow("12", "province", "Battambang", "Health", "Mortality", "2019"),
          IndicatorRow("11", "province", "Phnom Penh", "Education", "Schooling", "2019"),
          IndicatorRow("11", "province", "Phnom Penh", "Education", "Literacy", "2019"),
          IndicatorRow("12", "province", "Battambang", "Education", "Literacy", "1990"),
          IndicatorRow("21", "province", "Vientiane", "Education", "Literacy", "abc"),
          IndicatorRow("x", "country", "Nowhere", "Education", "Literacy", "2019")}
    [] file = "GEM-Sex-disaggregated" ->
         {SexRow("12", "province", "Employment", "Wage", "2020"),
          SexRow("12", "province", "Education", "Enrolment", "2020"),
          SexRow("11", "province", "Education", "Enrolment", "1990"),
          SexRow("21", "province", "Education", "Enrolment", "abc"),
          SexRow("x", "province", "Education", "Enrolment", "2019"),
          SexRow("11", "", "Education", "Enrolment", "2019"),
          SexRow("2", "province", "Education", "Enrolment", "2019")})

CsvFiles == {"GEM-GII", "GEM-GII_dimension", "GEM-GII_indicator", "GEM-Sex-disaggregated"}

\* the sequences over S of length at most n
SeqsUpTo(S, n) == UNION {[1..k -> S] : k \in 0..n}

\* main's country filter: none, or one country
CountryFilters == {{}, {"KHM"}}

\* the countries HDX knows: both, or one of them (a run with a country filter is
\* drawn with both)
HdxLocations(filter) == IF filter = {} THEN {{"KHM", "LAO"}, {"LAO"}} ELSE {{"KHM", "LAO"}}

----------------------------------------------------------------------------
(* The state machine *)

\* all four files populated, MaxRows rows in all
InitAllFiles ==
  /\ gii_data \in SeqsUpTo(CorePool("GEM-GII"), MaxRows)
  /\ dimension_data \in SeqsUpTo(CorePool("GEM-GII_dimension"), MaxRows)
  /\ indicator_data \in SeqsUpTo(CorePool("GEM-GII_indicator"), MaxRows)
  /\ sex_disagg_data \in SeqsUpTo(CorePool("GEM-Sex-disaggregated"), MaxRows)
  /\ Len(gii_data) + Len(dimension_data) + Len(indicator_data) + Len(sex_disagg_data) <= MaxRows

\* one file populated, with MaxLen rows at most
InitOneFile ==
  \E file \in CsvFiles :
    /\ gii_data \in (IF file = "GEM-GII" THEN SeqsUpTo(Pool(file), MaxLen) ELSE {<<>>})
    /\ dimension_data \in (IF file = "GEM-GII_dimension" THEN SeqsUpTo(Pool(file), MaxLen) ELSE {<<>>})
    /\ indicator_data \in (IF file = "GEM-GII_indicator" THEN SeqsUpTo(Pool(file), MaxLen) ELSE {<<>>})
    /\ sex_disagg_data \in (IF file = "GEM-Sex-disaggregated" THEN SeqsUpTo(Pool(file), MaxLen) ELSE {<<>>})

NoRows == [gii |-> <<>>, dimension |-> <<>>, indicator |-> <<>>, sex_disagg |-> <<>>]

\* after Pipeline.__init__, main about to call get_country_data
Init ==
  /\ country_geojson \in CountryFiles
  /\ province_geojson \in ProvinceFiles
  /\ countries = load_countries(country_geojson)
  /\ province_mapping = build_province_mapping(province_geojson)
  /\ (InitAllFiles \/ InitOneFile)
  /\ country_filter \in CountryFilters
  /\ locations \in HdxLocations(country_filter)
  /\ pc = "get_country_data"
  /\ next_country = 1
  /\ filtered = NoRows
  /\ results = <<>>
  /\ next_result = 1
  /\ hdx = <<>>

data == <<country_geojson, province_geojson, countries, province_mapping, gii_data, dimension_data, indicator_data, sex_disagg_data, country_filter, locations>>

\* one iteration of get_country_data's loop; a ValueError leaves get_country_data and main
ProcessCountry ==
  /\ pc = "get_country_data"
  /\ next_country <= Len(countries)
  /\ LET country == countries[next_country]
         r == CountryResult(country)
     IN /\ filtered' = FilterAll(country.iso3)
        /\ IF r.raised
           THEN pc' = "raised" /\ UNCHANGED <<results, next_country>>
           ELSE pc' = pc /\ results' = Append(results, r.result) /\ next_country' = next_country + 1
  /\ UNCHANGED <<data, next_result, hdx>>

\* get_country_data returning from inside its loop, after the first iteration
ReturnResults_early ==
  /\ pc = "get_country_data"
  /\ next_country > 1
  /\ pc' = "main_loop"
  /\ next_result' = 1
  /\ UNCHANGED <<data, next_country, filtered, results, hdx>>

\* get_country_data returns its results to main's loop
ReturnResults ==
  /\ pc = "get_country_data"
  /\ next_country > Len(countries)
  /\ pc' = "main_loop"
  /\ next_result' = 1
  /\ UNCHANGED <<data, next_country, filtered, results, hdx>>

\* main: the country is not in the filter
SkipFiltered ==
  /\ pc = "main_loop"
  /\ next_result <= Len(results)
  /\ country_filter # {} /\ results[next_result].iso3 \notin country_filter
  /\ next_result' = next_result + 1
  /\ UNCHANGED <<data, pc, next_country, filtered, results, hdx>>

\* main: generate_dataset returns a dataset, which is created in HDX
CreateDataset ==
  /\ pc = "main_loop"
  /\ next_result <= Len(results)
  /\ ~(country_filter # {} /\ results[next_result].iso3 \notin country_filter)
  /\ results[next_result].iso3 \in locations
  /\ hdx' = Append(hdx, generate_dataset(results[next_result]))
  /\ next_result' = next_result + 1
  /\ UNCHANGED <<data, pc, next_country, filtered, results>>

\* main with a generate_dataset that logs the HDXError and goes on to return the dataset
LocationNotFound_creates ==
  /\ pc = "main_loop"
  /\ next_result <= Len(results)
  /\ ~(country_filter # {} /\ results[next_result].iso3 \notin country_filter)
  /\ results[next_result].iso3 \notin locations
  /\ hdx' = Append(hdx, generate_dataset(results[next_result]))
  /\ next_result' = next_result + 1
  /\ UNCHANGED <<data, pc, next_country, filtered, results>>

\* main: add_country_location raises HDXError, generate_dataset returns None
LocationNotFound ==
  /\ pc = "main_loop"
  /\ next_result <= Len(results)
  /\ ~(country_filter # {} /\ results[next_result].iso3 \notin country_filter)
  /\ results[next_result].iso3 \notin locations
  /\ next_result' = next_result + 1
  /\ UNCHANGED <<data, pc, next_country, filtered, results, hdx>>

\* main's loop is over
Finish ==
  /\ pc = "main_loop"
  /\ next_result > Len(results)
  /\ pc' = "done"
  /\ UNCHANGED <<data, next_country, filtered, results, next_result, hdx>>

Next == ProcessCountry \/ ReturnResults \/ SkipFiltered \/ CreateDataset \/ LocationNotFound \/ Finish

Spec == Init /\ [][Next]_vars

----------------------------------------------------------------------------
(* Properties *)

\* get_country_data's loop has run an iteration
Iterated == next_country > 1 \/ pc = "raised"

\* the country of the loop's latest iteration
Current == IF pc = "raised" THEN countries[next_country] ELSE countries[next_country - 1]

\* the loaded rows, by the name of their filtered list
Source == [gii |-> gii_data, dimension |-> dimension_data, indicator |-> indicator_data, sex_disagg |-> sex_disagg_data]

\* the p-th smallest element of a set of indices
NthOf(idx, p) == CHOOSE n \in idx : Cardinality({m \in idx : m <= n}) = p

\* out holds the elements of in at the indices idx, in the order of in
IsSubsequenceAt(out, in, idx) ==
  /\ Len(out) = Cardinality(idx)
  /\ \A p \in 1..Len(out) : out[p] = in[NthOf(idx, p)]

YearIsInt(row) == IsInt(Get(row, "year", ""))

SubnationalTables == {"gii-subnational", "dimension-subnational", "indicator-subnational", "sex-disaggregated"}

NationalTables == {"gii-national", "dimension-national", "indicator-national"}

\* C1: in the result of every country of the loaded list, every row of each of the
\* seven output tables carries the iso3 of that country.
C1_RowsCarryIso3 ==
  \A k \in 1..Len(results) :
    /\ DOMAIN results[k].csv_data = NationalTables \cup SubnationalTables
    /\ \A s \in DOMAIN results[k].csv_data : \A n \in 1..Len(results[k].csv_data[s]) :
         results[k].csv_data[s][n].iso3 = countries[k].iso3

\* a result with rows in a national table and in a province-resolving table
C1_Witness ==
  \E k \in 1..Len(results) :
    /\ \E s \in NationalTables : results[k].csv_data[s] # <<>>
    /\ \E s \in SubnationalTables : results[k].csv_data[s] # <<>>

\* C2: a row that passes the partition with a missing or non-integer year is dropped
\* and no error is raised: the iteration ends normally and its tables hold the
\* remaining rows, one output row for each filtered row with an integer year.
C2_BadYearRowDropped ==
  (Iterated /\ \E f \in DOMAIN filtered : \E n \in 1..Len(filtered[f]) : ~YearIsInt(filtered[f][n])) =>
    /\ pc # "raised"
    /\ Len(AllRows(results[Len(results)].csv_data, 1))
         = Cardinality(UNION {{<<f, n>> : n \in {m \in 1..Len(filtered[f]) : YearIsInt(filtered[f][m])}} : f \in DOMAIN filtered})

\* the row of the partition's rule: an integer area_id that is the country's at
\* admin_level country, or a province of the country's at admin_level province
C3_Selected(row, country_code, country_area_id) ==
  /\ "area_id" \in DOMAIN row /\ IsInt(row["area_id"])
  /\ \/ Get(row, "admin_level", "") = "country" /\ int(row["area_id"]) = country_area_id
     \/ /\ Get(row, "admin_level", "") = "province"
        /\ int(row["area_id"]) \in DOMAIN province_mapping
        /\ province_mapping[int(row["area_id"])].iso3 = country_code

\* C3: for each of the four source tables, the filtered list holds, in source order,
\* exactly the rows the partition's rule selects for the country (where the country
\* list gives the iso3 one area_id); no row with an area_id that is no integer and
\* no row of another admin_level is in it.
C3_FilterSelectsByLevelAndArea ==
  Iterated =>
    \A f \in DOMAIN filtered :
      LET ids == {countries[n].area_id : n \in {m \in 1..Len(countries) : countries[m].iso3 = Current.iso3}}
      IN /\ Cardinality(ids) = 1 =>
              IsSubsequenceAt(filtered[f], Source[f], {n \in 1..Len(Source[f]) : C3_Selected(Source[f][n], Current.iso3, CHOOSE a \in ids : TRUE)})
         /\ \A n \in 1..Len(filtered[f]) :
              /\ Get(filtered[f][n], "admin_level", "") \in {"country", "province"}
              /\ "area_id" \in DOMAIN filtered[f][n] /\ IsInt(filtered[f][n]["area_id"])

\* one row kept out of a list that also holds a row with an area_id that is no
\* integer, or a row of another admin_level, before it
C3_Witness ==
  /\ Iterated
  /\ \E f \in DOMAIN filtered :
       /\ Len(Source[f]) = 2 /\ Len(filtered[f]) = 1 /\ filtered[f][1] = Source[f][2]
       /\ \/ ("area_id" \in DOMAIN Source[f][1] /\ ~IsInt(Source[f][1]["area_id"]))
          \/ Get(Source[f][1], "admin_level", "") \notin {"country", "province"}

\* the secondary sort keys of a subnational table's row, as ranks
C4_Secondary(s, x) ==
  CASE s = "gii-subnational" -> <<>>
    [] s = "dimension-subnational" -> <<StrRank(x.dimension_category), StrRank(x.dimension)>>
    [] s = "indicator-subnational" -> <<StrRank(x.indicator_category), StrRank(x.indicator)>>
    [] s = "sex-disaggregated" -> <<StrRank(x.indicator)>>

\* C4: in the four province-resolving tables, adjacent rows have non-increasing
\* integer years; at equal years non-decreasing provinces; at equal years and
\* provinces non-decreasing secondary keys.
C4_SubnationalSorted ==
  \A k \in 1..Len(results) : \A s \in SubnationalTables :
    LET t == results[k].csv_data[s]
    IN \A n \in 1..(Len(t) - 1) :
         /\ int(t[n].year) >= int(t[n + 1].year)
         /\ int(t[n].year) = int(t[n + 1].year) => StrRank(t[n].province) <= StrRank(t[n + 1].province)
         /\ (int(t[n].year) = int(t[n + 1].year) /\ t[n].province = t[n + 1].province) =>
              (C4_Secondary(s, t[n]) = C4_Secondary(s, t[n + 1]) \/ TupleLess(C4_Secondary(s, t[n]), C4_Secondary(s, t[n + 1])))

\* two rows of one year and province that the sort has swapped on their category
C4_Witness ==
  \E k \in 1..Len(results) :
    LET t == results[k].csv_data["dimension-subnational"]
    IN /\ Len(t) = 2 /\ Len(filtered.dimension) = 2
       /\ t[1].year = t[2].year /\ t[1].province = t[2].province
       /\ t[1].dimension_category # t[2].dimension_category
       /\ t[1].dimension_category = filtered.dimension[2][""]

\* the output record the claim gives a province-level row
C5_Expected(row, x) ==
  /\ x.iso3 = Current.iso3 /\ x.country = Current.name
  /\ x.year = row.year
  /\ x.province = (IF int(row.area_id) \in DOMAIN province_mapping THEN province_mapping[int(row.area_id)].name ELSE "")

\* C5: every province-level row with an integer year that a province-resolving
\* transformer is given has its output record, with the country's code and name,
\* the row's year and value, and the mapped province name or the empty string.
C5_ProvinceRowEmitted ==
  Iterated =>
    /\ \A n \in 1..Len(filtered.gii) :
         (filtered.gii[n].admin_level = "province" /\ YearIsInt(filtered.gii[n])) =>
           /\ pc # "raised"
           /\ \E m \in 1..Len(results[Len(results)].csv_data["gii-subnational"]) :
                LET x == results[Len(results)].csv_data["gii-subnational"][m]
                IN C5_Expected(filtered.gii[n], x) /\ x.gender_inequality_index = filtered.gii[n].gii
    /\ \A n \in 1..Len(filtered.sex_disagg) :
         (filtered.sex_disagg[n].admin_level = "province" /\ YearIsInt(filtered.sex_disagg[n])) =>
           /\ pc # "raised"
           /\ \E m \in 1..Len(results[Len(results)].csv_data["sex-disaggregated"]) :
                LET x == results[Len(results)].csv_data["sex-disaggregated"][m]
                IN C5_Expected(filtered.sex_disagg[n], x) /\ x.value = filtered.sex_disagg[n].value

\* C6: every row of every output table of a country's result has the country's
\* name as its country field, the national tables included.
C6_RowsCarryCountryName ==
  \A k \in 1..Len(results) : \A s \in DOMAIN results[k].csv_data : \A n \in 1..Len(results[k].csv_data[s]) :
    results[k].csv_data[s][n].country = countries[k].name

\* the years of a list of rows that are integers
C7_Years(rows) == {int(rows[n].year) : n \in {m \in 1..Len(rows) : IsInt(rows[m].year)}}

\* (min_year, max_year) is the range of the years, or the fallback when there is none
C7_IsRange(period, years) ==
  IF years # {} THEN period[1] \in years /\ period[2] \in years /\ \A y \in years : period[1] <= y /\ y <= period[2]
  ELSE period = <<2000, 2024>>

RECURSIVE C7_ResourceRows(_, _)
\* the rows of a dataset's csv resources, from the n-th resource on
C7_ResourceRows(resources, n) ==
  IF n > Len(resources) THEN <<>>
  ELSE (IF resources[n].format = "csv" THEN resources[n].content ELSE <<>>) \o C7_ResourceRows(resources, n + 1)

\* C7: each result's (min_year, max_year) is the smallest and the largest integer
\* year over its seven tables together, or (2000, 2024) when no row has one; and it
\* is the time period of the dataset generated from the result.
C7_YearRange ==
  /\ \A k \in 1..Len(results) :
       C7_IsRange(<<results[k].min_year, results[k].max_year>>, UNION {C7_Years(results[k].csv_data[s]) : s \in DOMAIN results[k].csv_data})
  /\ \A d \in 1..Len(hdx) : C7_IsRange(hdx[d].time_period, C7_Years(C7_ResourceRows(hdx[d].resources, 1)))

\* a dataset whose period spans two years that come from two tables, and a result
\* with the fallback
C7_Witness ==
  /\ \E d \in 1..Len(hdx) : hdx[d].time_period[1] < hdx[d].time_period[2] /\ \A r \in 1..Len(hdx[d].resources) : hdx[d].resources[r].format = "csv" => Len(hdx[d].resources[r].content) = 1
  /\ \E k \in 1..Len(results) : results[k].min_year = 2000 /\ results[k].max_year = 2024

\* C8: once get_country_data is over, a country whose source rows all have a
\* missing or invalid year has a result with min_year 2000 and max_year 2024.
C8_FallbackOnBadYears ==
  (pc \in {"main_loop", "done", "raised"}) =>
    \A k \in 1..Len(countries) :
      LET mine == FilterAll(countries[k].iso3)
      IN ((\E f \in DOMAIN mine : mine[f] # <<>>) /\ \A f \in DOMAIN mine : \A n \in 1..Len(mine[f]) : ~YearIsInt(mine[f][n])) =>
           k <= Len(results) /\ results[k].min_year = 2000 /\ results[k].max_year = 2024

\* the nine resource names of a country, in the fixed order
C9_Names(iso3) ==
  LET stem == lower(iso3) \o "-gem-"
  IN <<stem \o "gii-national.csv", stem \o "gii-subnational.csv", stem \o "dimension-national.csv", stem \o "dimension-subnational.csv", stem \o "indicator-national.csv", stem \o "indicator-subnational.csv", stem \o "sex-disaggregated.csv", stem \o "country-boundary.geojson", stem \o "province-boundaries.geojson">>

\* the places in the fixed order of a result's tables with a row and of its
\* geometry collections with a feature
C9_Present(r) ==
  {n \in 1..7 : r.csv_data[CsvOrder[n]] # <<>>} \cup {7 + n : n \in {m \in 1..2 : r.geojson_data[GeoOrder[m]].features # <<>>}}

\* C9: the resources of a created dataset are, in the fixed order, those of the
\* tables with a row and of the geometry collections with a feature, each named
\* <iso3 in lowercase>-gem-<suffix>.<ext>; an empty one gives no resource.
C9_ResourcesInFixedOrder ==
  \A d \in 1..Len(hdx) :
    \E k \in 1..Len(results) :
      /\ results[k].iso3 = hdx[d].location
      /\ IsSubsequenceAt([r \in 1..Len(hdx[d].resources) |-> hdx[d].resources[r].name], C9_Names(countries[k].iso3), C9_Present(results[k]))

\* a dataset with the national index table and the country boundary, without the
\* subnational index table and without province boundaries
C9_Witness ==
  \E d \in 1..Len(hdx) :
    LET names == {hdx[d].resources[r].name : r \in 1..Len(hdx[d].resources)}
    IN /\ "lao-gem-gii-national.csv" \in names /\ "lao-gem-country-boundary.geojson" \in names
       /\ "lao-gem-gii-subnational.csv" \notin names /\ "lao-gem-province-boundaries.geojson" \notin names

\* the features of a country among those of a collection are what the result holds
C10_Filtered(out, in, iso3) ==
  /\ out.type = "FeatureCollection"
  /\ IsSubsequenceAt(out.features, in.features, {n \in 1..Len(in.features) : in.features[n].properties.iso = iso3})

\* C10: the filtered collections of a result hold exactly the features of the input
\* whose iso is the country's, in the input's order and unchanged; the input
\* collections are never modified.
C10_GeojsonFiltered ==
  /\ [](\A k \in 1..Len(results) :
          /\ C10_Filtered(results[k].geojson_data["country-boundary"], country_geojson, countries[k].iso3)
          /\ C10_Filtered(results[k].geojson_data["province-boundaries"], province_geojson, countries[k].iso3))
  /\ [][country_geojson' = country_geojson /\ province_geojson' = province_geojson]_vars

\* two province features kept around one of another country that is left out
C10_Witness ==
  \E k \in 1..Len(results) :
    /\ Len(results[k].geojson_data["province-boundaries"].features) = 2
    /\ Len(province_geojson.features) = 3
    /\ province_geojson.features[2].properties.iso # countries[k].iso3

\* C11: however get_country_data ends, every country of the list whose own
\* processing raises no error has its result among the results; an error in another
\* country's processing does not keep it from being produced.
C11_OtherCountriesProcessed ==
  (pc \in {"raised", "main_loop", "done"}) =>
    \A k \in 1..Len(countries) :
      ~CountryResult(countries[k]).raised => \E j \in 1..Len(results) : results[j] = CountryResult(countries[k]).result

\* C12: the results are one per feature of the country source file, in the file's
\* order: the k-th result carries the k-th feature's iso and name, the seven tables,
\* the two geometry collections and a year range; when get_country_data returns,
\* there is a result for every feature.
C12_OneResultPerCountry ==
  LET features == country_geojson.features
  IN /\ Len(results) <= Len(features)
     /\ (pc \in {"main_loop", "done"}) => Len(results) = Len(features)
     /\ \A k \in 1..Len(results) :
          /\ DOMAIN results[k] = {"iso3", "name", "csv_data", "geojson_data", "min_year", "max_year"}
          /\ results[k].iso3 = features[k].properties.iso
          /\ results[k].name = features[k].properties.name_0
          /\ DOMAIN results[k].csv_data = {CsvOrder[n] : n \in 1..Len(CsvOrder)}
          /\ DOMAIN results[k].geojson_data = {GeoOrder[n] : n \in 1..Len(GeoOrder)}
          /\ results[k].min_year \in Int /\ results[k].max_year \in Int /\ results[k].min_year <= results[k].max_year

\* get_country_data has returned the results of a file of three features, two of
\* them of one iso
C12_Witness ==
  /\ pc = "main_loop"
  /\ Len(results) = 3
  /\ results[1].iso3 = results[3].iso3 /\ results[1].name # results[3].name

\* the last feature of the country source with the given iso
C13_Later(iso3) ==
  LET features == country_geojson.features
  IN features[CHOOSE n \in 1..Len(features) : features[n].properties.iso = iso3 /\ \A m \in (n + 1)..Len(features) : features[m].properties.iso # iso3].properties

\* C13: for an iso3 (shared by two features or not), the name and the area_id used
\* are those of the last feature with it: every result of the iso3 carries that
\* name, and the country-level rows selected for it are those of that area_id.
C13_LastWins ==
  /\ \A k \in 1..Len(results) : results[k].name = C13_Later(results[k].iso3).name_0
  /\ Iterated =>
       \A f \in DOMAIN filtered :
         IsSubsequenceAt(SelectSeq(filtered[f], LAMBDA row : Get(row, "admin_level", "") = "country"),
                         Source[f],
                         {n \in 1..Len(Source[f]) : /\ Get(Source[f][n], "admin_level", "") = "country"
                                                    /\ ~AreaIdRaises(Source[f][n])
                                                    /\ AreaIdOf(Source[f][n]) = C13_Later(Current.iso3).area_id})

\* the results main's loop has gone through that are in the country filter and
\* have a location HDX resolves
C14_Resolved(upto) ==
  {k \in 1..upto : (country_filter = {} \/ results[k].iso3 \in country_filter) /\ results[k].iso3 \in locations}

\* C14: no dataset is created for a country whose location is not resolved, and
\* the datasets created are, in order, those generated from the results main's loop
\* has gone through that are not filtered out and have a resolved location: an
\* unresolved one stops nothing after it.
C14_UnresolvedLocationSkipped ==
  /\ \A d \in 1..Len(hdx) : hdx[d].location \in locations
  /\ (pc \in {"main_loop", "done"}) =>
       IsSubsequenceAt(hdx, [k \in 1..Len(results) |-> generate_dataset(results[k])],
                       C14_Resolved(IF pc = "done" THEN Len(results) ELSE next_result - 1))

\* the run is over; a country without a resolved location came before one whose
\* dataset was created
C14_Witness ==
  /\ pc = "done"
  /\ \E k \in 1..Len(results) :
       /\ results[k].iso3 \notin locations
       /\ \E j \in (k + 1)..Len(results) : \E d \in 1..Len(hdx) : hdx[d] = generate_dataset(results[j])

\* C15: every province value that is not empty, in any table of a country's
\* result, is the name of an entry of the province mapping with the country's iso3.
C15_ProvinceOfCountry ==
  \A k \in 1..Len(results) : \A s \in SubnationalTables : \A n \in 1..Len(results[k].csv_data[s]) :
    LET province == results[k].csv_data[s][n].province
    IN province # "" =>
         \E area_id \in DOMAIN province_mapping :
           province_mapping[area_id].iso3 = results[k].iso3 /\ province_mapping[area_id].name = province

\* the loaded countries have pairwise distinct iso3 codes and area_ids
C16_Distinct ==
  \A k, j \in 1..Len(countries) :
    k # j => countries[k].iso3 # countries[j].iso3 /\ countries[k].area_id # countries[j].area_id

\* the entries of the country list the partition selects the row for
C16_SelectedFor(row) ==
  {k \in 1..Len(countries) : filter_csv_by_country(<<row>>, countries[k].iso3) # <<>>}

\* C16: when the loaded countries have pairwise distinct iso3 codes and area_ids,
\* every source row is selected for one country at most, and a row in a filtered
\* list of the loop is selected for no other country than the loop's.
C16_RowSelectedOnce ==
  C16_Distinct =>
    /\ \A f \in DOMAIN Source : \A n \in 1..Len(Source[f]) : Cardinality(C16_SelectedFor(Source[f][n])) <= 1
    /\ Iterated =>
         \A f \in DOMAIN filtered : \A n \in 1..Len(filtered[f]) :
           \A k \in C16_SelectedFor(filtered[f][n]) : countries[k].iso3 = Current.iso3

\* distinct countries, and a file with a row selected for each of two of them, both
\* with a row in their results
C16_Witness ==
  /\ C16_Distinct
  /\ pc = "main_loop"
  /\ \E f \in DOMAIN Source : \E n, m \in 1..Len(Source[f]) :
       /\ C16_SelectedFor(Source[f][n]) # {} /\ C16_SelectedFor(Source[f][m]) # {}
       /\ C16_SelectedFor(Source[f][n]) # C16_SelectedFor(Source[f][m])
  /\ \A k \in 1..Len(results) : \E s \in DOMAIN results[k].csv_data : results[k].csv_data[s] # <<>>

\* C17: main's loop takes no step and no dataset is in HDX before
\* get_country_data has returned the results of all the countries; when
\* get_country_data raises, no dataset is created, the countries whose results
\* were already computed included.
C17_NoDatasetBeforeAllResults ==
  /\ (hdx # <<>> \/ next_result > 1) => (pc \in {"main_loop", "done"} /\ Len(results) = Len(countries))
  /\ (pc \in {"get_country_data", "raised"}) => hdx = <<>> /\ next_result = 1

\* get_country_data has raised on a later country, after the result of an earlier
\* one that is not filtered out and has a resolved location
C17_Witness ==
  /\ pc = "raised"
  /\ hdx = <<>>
  /\ \E k \in 1..Len(results) : (country_filter = {} \/ results[k].iso3 \in country_filter) /\ results[k].iso3 \in locations

====
